---------------------------- MODULE Spec2Model ----------------------------
(***************************************************************************)
(* A model of the async-proxy client handshakes:                          *)
(*   Socks4General::connect   (src/src/clients/socks4/general.rs)          *)
(*   Socks4NoIdent::connect   (src/src/clients/socks4/no_ident.rs)         *)
(*   TcpNoAuth::connect       (src/src/clients/socks5/no_auth.rs)          *)
(*   Destination              (src/src/clients/socks5.rs)                  *)
(*                                                                         *)
(* A byte is a number in 0..255 and a buffer (Vec<u8>, &[u8], &str) is a   *)
(* sequence of bytes.  One attempt is one call of connect on a constructor *)
(* built by `new`.  connect suspends only at the write and at the read of  *)
(* a round trip, so an action is the code between two suspension points.   *)
(***************************************************************************)
EXTENDS Integers, Sequences, FiniteSets, TLC

VARIABLES
    self,      \* the constructor: kind, dest_addr, ident, destination, port, auth
    pc,        \* "idle" | "write" | "read" | "done": where connect is suspended
    phase,     \* 0 before connect; 1 for the v4 round trip; 1, 2, 3 for the v5 phases
    buf,       \* the local payload buffer `buf` of connect
    stream,    \* owner of the transport: "caller" | "connect" | "wrapper" | "dropped"
    sent,      \* history: the requests written in full to the transport, with their phase
    rcvd,      \* history: the replies read from the transport, with their phase
    result,    \* "None" while running, "Ok", an ErrorKind, or "Panic"
    io_err,    \* history: the step ("write" | "read") that failed and its error
    unread,    \* bytes of the server's handshake replies still in the transport
    tcp,       \* the transport: application bytes received and written, flushed, shut down
    twin,      \* history: the transport had the wrapper's operations been run on it directly
    polled,    \* the results of the last operation on the wrapper and on the twin
    built,     \* history: the constructor as new and with_authentication made it
    prev,      \* history: the previous attempt of the caller, when there was one
    parked,    \* a second attempt, suspended while this one runs, when there is one
    arg,       \* the text given to ConnectionTimeouts::from_str, when there is one
    timeouts   \* what ConnectionTimeouts::from_str returned

\* the variables of the handshake
hvars == <<self, pc, phase, buf, stream, sent, rcvd, result, io_err, unread>>

\* the variables of the transport after the handshake
wvars == <<tcp, twin, polled>>

\* the history of the constructor across attempts
avars == <<built, prev>>

\* a second attempt, and the parsing of timeouts
xvars == <<parked, arg, timeouts>>

vars == <<self, pc, phase, buf, stream, sent, rcvd, result, io_err, unread,
          tcp, twin, polled, built, prev, parked, arg, timeouts>>

-----------------------------------------------------------------------------
(* Bounds and input sets *)

\* The longest reply the server delivers to one read.
MaxReply == 10

Min(a, b) == IF a < b THEN a ELSE b

Rep(n, b) == [i \in 1..n |-> b]

Byte == 0..255

\* Destination ports (u16): 80 = 0x0050, 8080 = 0x1F90.
Ports == {80, 8080}

Ipv4Addrs == {<<127, 0, 0, 1>>, <<192, 168, 1, 200>>}

Ipv6Addrs == {<<32, 1, 13, 184, 0, 0, 0, 0, 0, 0, 0, 0, 0, 0, 0, 1>>}

\* ident strings of Socks4General, as bytes ("", "u", "us")
Idents == {<< >>, <<117>>, <<117, 115>>}

\* domain names, as bytes: "a.b", 255 bytes, 256 bytes
Names == {<<97, 46, 98>>, Rep(255, 97), Rep(256, 97)}

\* <<username, password>> pairs given to with_authentication
Credentials ==
    {<<<<117>>, <<112, 119>>>>, << << >>, <<112>> >>, <<Rep(255, 117), <<112>> >>,
     <<Rep(256, 117), << >> >>}

\* Reply bytes: byte 0 and the bytes after the status byte take these values.
FirstBytes == {0, 5}
FillBytes == {0, 255}
\* The status byte takes every value at the reply lengths a handshake can
\* accept or a server sends in full (2, 8, 10), and these values at every
\* other length.
SweepLens == {2, 8, 10}
SampleStatus == {0, 2, 90, 255}

Reply(n, b0, b1, f) ==
    [i \in 1..n |-> IF i = 1 THEN b0 ELSE IF i = 2 THEN b1 ELSE f]

\* The full version-5 success reply with an IPv4 bound address
CannedReplies == {<<5, 0, 0, 1, 0, 0, 0, 0, 0, 0>>}

\* The byte strings one read can deliver into a buffer of `cap` bytes.
Replies(cap) ==
    {r \in CannedReplies : Len(r) <= cap}
    \cup
    {Reply(n, b0, b1, f) :
        n \in {k \in SweepLens : k <= cap}, b0 \in FirstBytes, b1 \in Byte, f \in FillBytes}
    \cup
    {Reply(n, b0, b1, f) :
        n \in 0..Min(cap, MaxReply), b0 \in FirstBytes, b1 \in SampleStatus, f \in FillBytes}

-----------------------------------------------------------------------------
(* Byte-level helpers *)

\* Vec::resize(new_len, 0)
resize(b, n) ==
    IF n <= Len(b) THEN SubSeq(b, 1, n) ELSE b \o Rep(n - Len(b), 0)

\* b with the bytes of s stored from 0-based index `at` on (at + Len(s) <= Len(b))
Store(b, at, s) ==
    [i \in 1..Len(b) |-> IF i > at /\ i <= at + Len(s) THEN s[i - at] ELSE b[i]]

\* `x as u8`
AsU8(x) == x % 256

\* Mutant of write_u16: least significant byte first
write_u16_LittleEndian(p) == <<p % 256, p \div 256>>

\* BigEndian::write_u16: the two bytes of a u16, most significant first
write_u16(p) == <<p \div 256, p % 256>>

\* u32::from(Ipv4Addr): the address as a 32-bit number, held as two 16-bit limbs
Ipv4ToU32(o) == <<o[1] * 256 + o[2], o[3] * 256 + o[4]>>

\* BigEndian::write_u32: the four bytes of a u32, most significant first
write_u32(w) == <<w[1] \div 256, w[1] % 256, w[2] \div 256, w[2] % 256>>

\* u128::from(Ipv6Addr): the address as a 128-bit number, held as eight 16-bit limbs
Ipv6ToU128(o) == [i \in 1..8 |-> o[2 * i - 1] * 256 + o[2 * i]]

\* BigEndian::write_u128: the sixteen bytes of a u128, most significant first
write_u128(w) ==
    [i \in 1..16 |-> IF i % 2 = 1 THEN w[(i + 1) \div 2] \div 256 ELSE w[i \div 2] % 256]

\* AsyncReadExt::read into a buffer: the first Len(r) bytes are overwritten
ReadInto(b, r) == r \o SubSeq(b, Len(r) + 1, Len(b))

-----------------------------------------------------------------------------
(* The constructors *)

\* socks4::Command::TcpConnectionEstablishment
S4_TcpConnectionEstablishment == 1

\* socks5::Command::TcpConnectionEstablishment
S5_TcpConnectionEstablishment == 1

NoAuthentication == [kind |-> "NoAuthentication", username |-> << >>, password |-> << >>]

UsernamePassword(u, p) == [kind |-> "UsernamePassword", username |-> u, password |-> p]

Ipv4Addr(a) == [tag |-> "Ipv4Addr", addr |-> a]
DomainName(n) == [tag |-> "DomainName", addr |-> n]
Ipv6Addr(a) == [tag |-> "Ipv6Addr", addr |-> a]

\* Fields a constructor kind does not have hold these values.
NoDestAddr == [ip |-> <<0, 0, 0, 0>>, port |-> 0]
NoDestination == [tag |-> "None", addr |-> << >>]

Destinations ==
    {Ipv4Addr(a) : a \in Ipv4Addrs} \cup {DomainName(n) : n \in Names}
        \cup {Ipv6Addr(a) : a \in Ipv6Addrs}

\* Socks4General::new
Socks4General_new(dest_addr, ident) ==
    [kind |-> "Socks4General", dest_addr |-> dest_addr, ident |-> ident,
     destination |-> NoDestination, port |-> 0, auth |-> NoAuthentication]

\* Socks4NoIdent::new
Socks4NoIdent_new(dest_addr) ==
    [kind |-> "Socks4NoIdent", dest_addr |-> dest_addr, ident |-> << >>,
     destination |-> NoDestination, port |-> 0, auth |-> NoAuthentication]

\* TcpNoAuth::new: authentication is NoAuthentication by default
TcpNoAuth_new(destination, port) ==
    [kind |-> "TcpNoAuth", dest_addr |-> NoDestAddr, ident |-> << >>,
     destination |-> destination, port |-> port, auth |-> NoAuthentication]

-----------------------------------------------------------------------------
(* Version 4: the request and the reply table *)

\* Mutant of S4GeneralRequest: the NULL-termination byte is not pushed
S4GeneralRequest_NoTerminator(s) ==
    LET b1 == <<4, S4_TcpConnectionEstablishment>>
        b2 == b1 \o <<0, 0>>
        b3 == Store(b2, 2, write_u16(s.dest_addr.port))
        b4 == b3 \o <<0, 0, 0, 0>>
    IN  Store(b4, 4, write_u32(Ipv4ToU32(s.dest_addr.ip)))

\* Socks4General::connect up to send_payload: the payload buffer.  buf_len
\* counts the ident, but it is only the capacity of the Vec: the pushes
\* below are all the bytes the buffer gets.
S4GeneralRequest(s) ==
    LET b1 == <<4, S4_TcpConnectionEstablishment>>
        b2 == b1 \o <<0, 0>>
        b3 == Store(b2, 2, write_u16(s.dest_addr.port))
        b4 == b3 \o <<0, 0, 0, 0>>
        b5 == Store(b4, 4, write_u32(Ipv4ToU32(s.dest_addr.ip)))
    IN  b5 \o <<0>>

\* Socks4NoIdent::connect up to the write: the payload buffer
S4NoIdentRequest(s) ==
    LET b1 == <<4, S4_TcpConnectionEstablishment>>
        b2 == b1 \o <<0, 0>>
        b3 == Store(b2, 2, write_u16(s.dest_addr.port))
        b4 == b3 \o <<0, 0, 0, 0>>
        b5 == Store(b4, 4, write_u32(Ipv4ToU32(s.dest_addr.ip)))
    IN  b5 \o <<0>>

\* Mutant of S4GeneralOutcome: the arms of 0x5C and 0x5D are swapped
S4GeneralOutcome_SwappedArms(b, read_bytes) ==
    IF read_bytes # 8 THEN "BadBuffer"
    ELSE CASE b[2] = 90 -> "Ok"
           [] b[2] = 91 -> "RequestDenied"
           [] b[2] = 92 -> "BadIdent"
           [] b[2] = 93 -> "IdentIsUnavailable"
           [] OTHER -> "BadBuffer"

\* Socks4General::connect after send_payload: read_bytes and buf[1] decide
S4GeneralOutcome(b, read_bytes) ==
    IF read_bytes # 8 THEN "BadBuffer"
    ELSE CASE b[2] = 90 -> "Ok"
           [] b[2] = 91 -> "RequestDenied"
           [] b[2] = 92 -> "IdentIsUnavailable"
           [] b[2] = 93 -> "BadIdent"
           [] OTHER -> "BadBuffer"

\* Mutant of S4NoIdentOutcome: only a short read is refused
S4NoIdentOutcome_ShortCheck(b, read_bytes) ==
    IF read_bytes < 8 THEN "BadBuffer"
    ELSE CASE b[2] = 90 -> "Ok"
           [] b[2] = 91 -> "RequestDenied"
           [] b[2] = 92 -> "IdentIsUnavailable"
           [] b[2] = 93 -> "BadIdent"
           [] OTHER -> "BadBuffer"

\* Socks4NoIdent::connect after the read: read_bytes and buf[1] decide
S4NoIdentOutcome(b, read_bytes) ==
    IF read_bytes # 8 THEN "BadBuffer"
    ELSE CASE b[2] = 90 -> "Ok"
           [] b[2] = 91 -> "RequestDenied"
           [] b[2] = 92 -> "IdentIsUnavailable"
           [] b[2] = 93 -> "BadIdent"
           [] OTHER -> "BadBuffer"

-----------------------------------------------------------------------------
(* Version 5: Destination *)

\* Destination::len_as_buffer
len_as_buffer(d) ==
    CASE d.tag = "Ipv4Addr" -> 4 + 1
      [] d.tag = "DomainName" -> Len(d.addr) + 2
      [] d.tag = "Ipv6Addr" -> 16 + 1

\* Destination::extend_buffer on the slice b: "Ok" with the slice as written,
\* "Err" (the name is longer than 255), or "Panic" (an index out of the slice,
\* or clone_from_slice on slices of different lengths).
extend_buffer(d, b) ==
    CASE d.tag = "Ipv4Addr" ->
            IF Len(b) < 5 THEN [res |-> "Panic", out |-> b]
            ELSE [res |-> "Ok",
                  out |-> Store(Store(b, 0, <<1>>), 1, write_u32(Ipv4ToU32(d.addr)))]
      [] d.tag = "DomainName" ->
            IF Len(b) < 1 THEN [res |-> "Panic", out |-> b]
            ELSE IF Len(d.addr) > 255 THEN [res |-> "Err", out |-> Store(b, 0, <<3>>)]
            ELSE IF Len(b) < 2 THEN [res |-> "Panic", out |-> Store(b, 0, <<3>>)]
            ELSE IF Len(b) - 2 # Len(d.addr)
                 THEN [res |-> "Panic",
                       out |-> Store(Store(b, 0, <<3>>), 1, <<AsU8(Len(d.addr))>>)]
            ELSE [res |-> "Ok",
                  out |-> Store(Store(Store(b, 0, <<3>>), 1, <<AsU8(Len(d.addr))>>),
                                2, d.addr)]
      [] d.tag = "Ipv6Addr" ->
            IF Len(b) < 17 THEN [res |-> "Panic", out |-> b]
            ELSE [res |-> "Ok",
                  out |-> Store(Store(b, 0, <<4>>), 1, write_u128(Ipv6ToU128(d.addr)))]

-----------------------------------------------------------------------------
(* Version 5: the requests of the three phases and the reply tables *)

\* Mutant of Phase1Request: method 0x00 is offered whatever the selection
Phase1Request_AlwaysNoAuth(auth) == <<5, 1, 0>>

\* TcpNoAuth::connect up to the first send_payload: the method request
Phase1Request(auth) ==
    LET b == <<5, 1>>
    IN  CASE auth.kind = "NoAuthentication" -> b \o <<0>>
          [] auth.kind = "UsernamePassword" -> b \o <<2>>
          [] OTHER -> b

\* Mutant of Phase2Request: the password is stored one index early, over
\* the PLEN field
Phase2Request_PasswordOverPlen(b, auth) ==
    LET username == auth.username
        password == auth.password
        buf_size == 1 + 1 + Len(username) + 1 + Len(password)
        b1 == resize(b, buf_size)
        b2 == Store(b1, 1, <<AsU8(Len(username))>>)
        b3 == Store(b2, 2, username)
        b4 == Store(b3, 2 + Len(username), <<AsU8(Len(password))>>)
    IN  Store(b4, 2 + Len(username), password)

\* TcpNoAuth::connect, arm 0x02 with UsernamePassword: the sub-negotiation
\* request, written over the reused buffer b
Phase2Request(b, auth) ==
    LET username == auth.username
        password == auth.password
        buf_size == 1 + 1 + Len(username) + 1 + Len(password)
        b1 == resize(b, buf_size)
        b2 == Store(b1, 1, <<AsU8(Len(username))>>)
        b3 == Store(b2, 2, username)
        b4 == Store(b3, 2 + Len(username), <<AsU8(Len(password))>>)
    IN  Store(b4, 2 + Len(username) + 1, password)

\* Mutant of Phase3Request: the version byte is not set again, so the
\* sub-negotiation version left in buf[0] stays
Phase3Request_StaleVersion(b, s) ==
    LET dest_buf_len == len_as_buffer(s.destination)
        buf_len == 1 + 1 + 1 + dest_buf_len + 2
        b1 == resize(b, buf_len)
        b3 == Store(b1, 1, <<S5_TcpConnectionEstablishment>>)
        ext == extend_buffer(s.destination, SubSeq(b3, 4, Len(b3)))
        b4 == SubSeq(b3, 1, 3) \o ext.out
    IN  IF ext.res # "Ok" THEN [res |-> "Panic", buf |-> b4]
        ELSE [res |-> "Ok", buf |-> Store(b4, 3 + dest_buf_len, write_u16(s.port))]

\* TcpNoAuth::connect after the method match: the connect request, written
\* over the reused buffer b.  res is "Ok", or "Panic" when extend_buffer
\* panics or its Err is unwrapped.
Phase3Request(b, s) ==
    LET dest_buf_len == len_as_buffer(s.destination)
        buf_len == 1 + 1 + 1 + dest_buf_len + 2
        b1 == resize(b, buf_len)
        b2 == Store(b1, 0, <<5>>)
        b3 == Store(b2, 1, <<S5_TcpConnectionEstablishment>>)
        ext == extend_buffer(s.destination, SubSeq(b3, 4, Len(b3)))
        b4 == SubSeq(b3, 1, 3) \o ext.out
    IN  IF ext.res # "Ok" THEN [res |-> "Panic", buf |-> b4]
        ELSE [res |-> "Ok", buf |-> Store(b4, 3 + dest_buf_len, write_u16(s.port))]

\* Mutant of Phase2Outcome: the read count is not checked
Phase2Outcome_NoCountCheck(b, read_bytes) ==
    CASE b[2] = 0 -> "Ok"
      [] b[2] = 1 -> "SocksServerFailure"
      [] b[2] = 2 -> "RequestDenied"
      [] b[2] = 3 -> "NetworkUnreachable"
      [] b[2] = 4 -> "HostUnreachable"
      [] b[2] = 5 -> "ConnectionRefused"
      [] b[2] = 6 -> "TTLExpired"
      [] b[2] = 7 -> "NotSupported"
      [] b[2] = 8 -> "DestinationNotSupported"
      [] OTHER -> "BadBuffer"

\* The match on buf[1] that ends the username/password sub-negotiation
Phase2Outcome(b, read_bytes) ==
    IF read_bytes # 2 THEN "BadBuffer"
    ELSE CASE b[2] = 0 -> "Ok"
           [] b[2] = 1 -> "SocksServerFailure"
           [] b[2] = 2 -> "RequestDenied"
           [] b[2] = 3 -> "NetworkUnreachable"
           [] b[2] = 4 -> "HostUnreachable"
           [] b[2] = 5 -> "ConnectionRefused"
           [] b[2] = 6 -> "TTLExpired"
           [] b[2] = 7 -> "NotSupported"
           [] b[2] = 8 -> "DestinationNotSupported"
           [] OTHER -> "BadBuffer"

\* Mutant of Phase3Outcome: the arm of 0x08 is missing
Phase3Outcome_MissingArm(b, read_bytes) ==
    IF read_bytes # 2 THEN "BadBuffer"
    ELSE CASE b[2] = 0 -> "Ok"
           [] b[2] = 1 -> "SocksServerFailure"
           [] b[2] = 2 -> "RequestDenied"
           [] b[2] = 3 -> "NetworkUnreachable"
           [] b[2] = 4 -> "HostUnreachable"
           [] b[2] = 5 -> "ConnectionRefused"
           [] b[2] = 6 -> "TTLExpired"
           [] b[2] = 7 -> "NotSupported"
           [] OTHER -> "BadBuffer"

\* Mutant of Phase3Outcome: the match reads buf[0] instead of buf[1]
Phase3Outcome_WrongIndex(b, read_bytes) ==
    IF read_bytes # 2 THEN "BadBuffer"
    ELSE CASE b[1] = 0 -> "Ok"
           [] b[1] = 1 -> "SocksServerFailure"
           [] b[1] = 2 -> "RequestDenied"
           [] b[1] = 3 -> "NetworkUnreachable"
           [] b[1] = 4 -> "HostUnreachable"
           [] b[1] = 5 -> "ConnectionRefused"
           [] b[1] = 6 -> "TTLExpired"
           [] b[1] = 7 -> "NotSupported"
           [] b[1] = 8 -> "DestinationNotSupported"
           [] OTHER -> "BadBuffer"

\* The match on buf[1] that ends the connect request
Phase3Outcome(b, read_bytes) ==
    IF read_bytes # 2 THEN "BadBuffer"
    ELSE CASE b[2] = 0 -> "Ok"
           [] b[2] = 1 -> "SocksServerFailure"
           [] b[2] = 2 -> "RequestDenied"
           [] b[2] = 3 -> "NetworkUnreachable"
           [] b[2] = 4 -> "HostUnreachable"
           [] b[2] = 5 -> "ConnectionRefused"
           [] b[2] = 6 -> "TTLExpired"
           [] b[2] = 7 -> "NotSupported"
           [] b[2] = 8 -> "DestinationNotSupported"
           [] OTHER -> "BadBuffer"

\* Mutant of Phase1Outcome: method 0x00 is accepted, and the attempt goes
\* on to the connect request
Phase1Outcome_NoAuthProceeds(b, read_bytes, s) ==
    LET end(r) == [result |-> r, phase |-> 1, buf |-> << >>]
        go(req) == IF req.res = "Ok"
                   THEN [result |-> "None", phase |-> 3, buf |-> req.buf]
                   ELSE [result |-> "Panic", phase |-> 3, buf |-> << >>]
    IN  IF read_bytes # 2 THEN end("BadBuffer")
        ELSE IF b[1] # 5 \/ b[2] = 255 THEN end("BadBuffer")
        ELSE CASE b[2] = 0 -> go(Phase3Request(b, s))
               [] b[2] = 1 -> end("Method_GssAPI")
               [] b[2] = 2 ->
                    LET b1 == Store(b, 0, <<1>>)
                    IN  IF s.auth.kind = "UsernamePassword"
                        THEN [result |-> "None", phase |-> 2,
                              buf |-> Phase2Request(b1, s.auth)]
                        ELSE go(Phase3Request(b1, s))
               [] b[2] >= 3 /\ b[2] <= 127 -> end("Method_IANA")
               [] b[2] >= 128 /\ b[2] <= 254 -> end("Method_PrivateMethods")

\* Mutant of Phase1Outcome: the range of the IANA arm ends at 0x80
Phase1Outcome_IanaRange(b, read_bytes, s) ==
    LET end(r) == [result |-> r, phase |-> 1, buf |-> << >>]
    IN  IF read_bytes # 2 THEN end("BadBuffer")
        ELSE IF b[1] # 5 \/ b[2] = 255 THEN end("BadBuffer")
        ELSE CASE b[2] = 0 -> end("Method_NoAuthRequired")
               [] b[2] = 1 -> end("Method_GssAPI")
               [] b[2] = 2 ->
                    LET b1 == Store(b, 0, <<1>>)
                    IN  IF s.auth.kind = "UsernamePassword"
                        THEN [result |-> "None", phase |-> 2,
                              buf |-> Phase2Request(b1, s.auth)]
                        ELSE LET req == Phase3Request(b1, s)
                             IN  IF req.res = "Ok"
                                 THEN [result |-> "None", phase |-> 3, buf |-> req.buf]
                                 ELSE [result |-> "Panic", phase |-> 3, buf |-> << >>]
               [] b[2] >= 3 /\ b[2] <= 128 -> end("Method_IANA")
               [] b[2] >= 129 /\ b[2] <= 254 -> end("Method_PrivateMethods")

\* What connect does with the method reply: a result that ends the attempt
\* ("None": the attempt goes on to `phase` with the request `buf`).
Phase1Outcome(b, read_bytes, s) ==
    LET end(r) == [result |-> r, phase |-> 1, buf |-> << >>]
    IN  IF read_bytes # 2 THEN end("BadBuffer")
        ELSE IF b[1] # 5 \/ b[2] = 255 THEN end("BadBuffer")
        ELSE CASE b[2] = 0 -> end("Method_NoAuthRequired")
               [] b[2] = 1 -> end("Method_GssAPI")
               [] b[2] = 2 ->
                    LET b1 == Store(b, 0, <<1>>)
                    IN  IF s.auth.kind = "UsernamePassword"
                        THEN [result |-> "None", phase |-> 2,
                              buf |-> Phase2Request(b1, s.auth)]
                        ELSE LET req == Phase3Request(b1, s)
                             IN  IF req.res = "Ok"
                                 THEN [result |-> "None", phase |-> 3, buf |-> req.buf]
                                 ELSE [result |-> "Panic", phase |-> 3, buf |-> << >>]
               [] b[2] >= 3 /\ b[2] <= 127 -> end("Method_IANA")
               [] b[2] >= 128 /\ b[2] <= 254 -> end("Method_PrivateMethods")

-----------------------------------------------------------------------------
(* The attempt: state after construction, and the steps of connect *)

\* no write or read step has failed
NoIoError == [step |-> "none", err |-> "None"]

\* The length of the reply the protocol prescribes for a round trip: 8 bytes
\* in version 4, 2 bytes for the method and the sub-negotiation replies, and
\* 10 bytes for a connect reply with an IPv4 bound address.
FullReplyLen(s, ph) ==
    IF s.kind # "TcpNoAuth" THEN 8 ELSE IF ph = 3 THEN 10 ELSE 2

\* The bytes of the server's reply that a read delivering r can leave in the
\* transport: none (the read got all the server sent), or the rest of the
\* prescribed reply when the transport delivered only a prefix of it.
Leftovers(s, ph, r) ==
    {0} \cup (IF Len(r) >= 1 /\ Len(r) < FullReplyLen(s, ph)
              THEN {FullReplyLen(s, ph) - Len(r)} ELSE {})

\* there is no second attempt
NoAttempt == [pc |-> "absent"]

\* from_str has not been given a text, and has returned nothing
NoArg == [s |-> << >>, ms |-> << >>]
NotParsed == [res |-> "None"]

\* a connected TcpStream on which no application byte has moved
Connected == [rx |-> << >>, tx |-> << >>, flushed |-> TRUE, shut |-> FALSE]

\* no operation has been polled yet
NotPolled == [poll |-> "None", val |-> << >>]

DestAddrs == {[ip |-> a, port |-> p] : a \in Ipv4Addrs, p \in Ports}

Constructors ==
    {Socks4General_new(d, i) : d \in DestAddrs, i \in Idents}
        \cup {Socks4NoIdent_new(d) : d \in DestAddrs}
        \cup {TcpNoAuth_new(d, p) : d \in Destinations, p \in Ports}

Init ==
    /\ self \in Constructors
    /\ pc = "idle"
    /\ phase = 0
    /\ buf = << >>
    /\ stream = "caller"
    /\ sent = << >>
    /\ rcvd = << >>
    /\ result = "None"
    /\ io_err = NoIoError
    /\ unread = 0
    /\ tcp = Connected
    /\ twin = Connected
    /\ polled = [wrapper |-> NotPolled, raw |-> NotPolled]
    /\ built = self
    /\ prev = [how |-> "none", built |-> self, sent |-> << >>, rcvd |-> << >>,
               result |-> "None", io_err |-> NoIoError]
    /\ parked = NoAttempt
    /\ arg = NoArg
    /\ timeouts = NotParsed

\* Mutant of with_authentication: credentials already set are kept
with_authentication_FirstWins ==
    /\ pc = "idle"
    /\ self.kind = "TcpNoAuth"
    /\ \E c \in Credentials :
        /\ self' = IF self.auth.kind = "UsernamePassword" THEN self
                   ELSE [self EXCEPT !.auth = UsernamePassword(c[1], c[2])]
        /\ built' = [self EXCEPT !.auth = UsernamePassword(c[1], c[2])]
    /\ UNCHANGED <<pc, phase, buf, stream, sent, rcvd, result, io_err, unread>>
    /\ UNCHANGED wvars
    /\ UNCHANGED prev
    /\ UNCHANGED xvars

\* TcpNoAuth::with_authentication, before connect is called
with_authentication ==
    /\ pc = "idle"
    /\ self.kind = "TcpNoAuth"
    /\ \E c \in Credentials :
        /\ self' = [self EXCEPT !.auth = UsernamePassword(c[1], c[2])]
        /\ built' = [self EXCEPT !.auth = UsernamePassword(c[1], c[2])]
    /\ UNCHANGED <<pc, phase, buf, stream, sent, rcvd, result, io_err, unread>>
    /\ UNCHANGED wvars
    /\ UNCHANGED prev
    /\ UNCHANGED xvars

\* Mutant of FirstRequest: a counter of the attempts made in the process,
\* kept outside the constructor, is added to the last byte of the request
FirstRequest_Stateful(s) ==
    LET req == CASE s.kind = "Socks4General" -> S4GeneralRequest(s)
                 [] s.kind = "Socks4NoIdent" -> S4NoIdentRequest(s)
                 [] s.kind = "TcpNoAuth" -> Phase1Request(s.auth)
    IN  IF prev.how = "none" THEN req
        ELSE [req EXCEPT ![Len(req)] = (@ + 1) % 256]

\* The request connect builds before its first suspension point
FirstRequest(s) ==
    CASE s.kind = "Socks4General" -> S4GeneralRequest(s)
      [] s.kind = "Socks4NoIdent" -> S4NoIdentRequest(s)
      [] s.kind = "TcpNoAuth" -> Phase1Request(s.auth)

\* Mutant of connect: the credentials are taken out of the constructor
\* when the first request has been built
connect_TakesAuth ==
    /\ pc = "idle"
    /\ pc' = "write"
    /\ phase' = 1
    /\ buf' = FirstRequest(self)
    /\ stream' = "connect"
    /\ self' = [self EXCEPT !.auth = NoAuthentication]
    /\ UNCHANGED <<sent, rcvd, result, io_err, unread>>
    /\ UNCHANGED wvars
    /\ UNCHANGED avars
    /\ UNCHANGED xvars

\* connect is called with the transport and runs to its first write
connect ==
    /\ pc = "idle"
    /\ pc' = "write"
    /\ phase' = 1
    /\ buf' = FirstRequest(self)
    /\ stream' = "connect"
    /\ UNCHANGED <<self, sent, rcvd, result, io_err, unread>>
    /\ UNCHANGED wvars
    /\ UNCHANGED avars
    /\ UNCHANGED xvars

\* Mutant of IoFailure: every connect unwraps the result of its I/O
IoFailure_Unwraps(s, e) == "Panic"

\* How connect ends on a failed write or read: Socks4NoIdent returns the
\* error with `?`; Socks4General and TcpNoAuth unwrap send_payload's result.
IoFailure(s, e) == IF s.kind = "Socks4NoIdent" THEN e ELSE "Panic"

\* Mutant of Finish: on a failure connect starts over with its first request
\* on the same transport
Finish_Retry(r) ==
    IF r = "Ok"
    THEN /\ pc' = "done"
         /\ result' = r
         /\ buf' = << >>
         /\ stream' = "wrapper"
    ELSE /\ pc' = "write"
         /\ result' = r
         /\ buf' = FirstRequest(self)
         /\ stream' = stream

\* connect returns (or unwinds): the locals are dropped, and the transport
\* is moved into the wrapper or dropped.
Finish(r) ==
    /\ pc' = "done"
    /\ result' = r
    /\ buf' = << >>
    /\ stream' = IF r = "Ok" THEN "wrapper" ELSE "dropped"

\* Mutant of write_ok: one write call, which takes the first byte only,
\* in place of write_all
write_ok_Partial ==
    /\ pc = "write"
    /\ pc' = "read"
    /\ sent' = Append(sent, [phase |-> phase, bytes |-> SubSeq(buf, 1, 1)])
    /\ UNCHANGED <<self, phase, buf, stream, rcvd, result, io_err, unread>>
    /\ UNCHANGED wvars
    /\ UNCHANGED avars
    /\ UNCHANGED xvars

\* write_all under the write timeout completes
write_ok ==
    /\ pc = "write"
    /\ pc' = "read"
    /\ sent' = Append(sent, [phase |-> phase, bytes |-> buf])
    /\ UNCHANGED <<self, phase, buf, stream, rcvd, result, io_err, unread>>
    /\ UNCHANGED wvars
    /\ UNCHANGED avars
    /\ UNCHANGED xvars

\* Mutant of write_fail: the result of the write is discarded and the
\* read follows
write_fail_Ignored ==
    /\ pc = "write"
    /\ pc' = "read"
    /\ \E e \in {"OperationTimeoutReached", "IOError"} :
        io_err' = [step |-> "write", err |-> e]
    /\ UNCHANGED <<self, phase, buf, stream, sent, rcvd, result, unread>>
    /\ UNCHANGED wvars
    /\ UNCHANGED avars
    /\ UNCHANGED xvars

\* the write timeout fires, or the transport fails the write
write_fail ==
    /\ pc = "write"
    /\ \E e \in {"OperationTimeoutReached", "IOError"} :
        /\ Finish(IoFailure(self, e))
        /\ io_err' = [step |-> "write", err |-> e]
    /\ UNCHANGED <<self, phase, sent, rcvd, unread>>
    /\ UNCHANGED wvars
    /\ UNCHANGED avars
    /\ UNCHANGED xvars

\* the read timeout fires, or the transport fails the read
read_fail ==
    /\ pc = "read"
    /\ \E e \in {"OperationTimeoutReached", "IOError"} :
        /\ Finish(IoFailure(self, e))
        /\ io_err' = [step |-> "read", err |-> e]
    /\ UNCHANGED <<self, phase, sent, rcvd, unread>>
    /\ UNCHANGED wvars
    /\ UNCHANGED avars
    /\ UNCHANGED xvars

\* Mutant of AfterRead: after a read of fewer bytes than the reply has, the
\* round trip is made again
AfterRead_RetriesShortRead(s, ph, b, read_bytes) ==
    IF read_bytes < (IF s.kind = "TcpNoAuth" THEN 2 ELSE 8) /\ read_bytes > 0
    THEN [result |-> "None", phase |-> ph, buf |-> b]
    ELSE CASE s.kind = "Socks4General" ->
                [result |-> S4GeneralOutcome(b, read_bytes), phase |-> ph, buf |-> << >>]
           [] s.kind = "Socks4NoIdent" ->
                [result |-> S4NoIdentOutcome(b, read_bytes), phase |-> ph, buf |-> << >>]
           [] s.kind = "TcpNoAuth" /\ ph = 1 -> Phase1Outcome(b, read_bytes, s)
           [] s.kind = "TcpNoAuth" /\ ph = 2 ->
                [result |-> Phase2Outcome(b, read_bytes), phase |-> ph, buf |-> << >>]
           [] s.kind = "TcpNoAuth" /\ ph = 3 ->
                [result |-> Phase3Outcome(b, read_bytes), phase |-> ph, buf |-> << >>]

\* What connect does after a read of read_bytes bytes into b
AfterRead(s, ph, b, read_bytes) ==
    CASE s.kind = "Socks4General" ->
            [result |-> S4GeneralOutcome(b, read_bytes), phase |-> ph, buf |-> << >>]
      [] s.kind = "Socks4NoIdent" ->
            [result |-> S4NoIdentOutcome(b, read_bytes), phase |-> ph, buf |-> << >>]
      [] s.kind = "TcpNoAuth" /\ ph = 1 -> Phase1Outcome(b, read_bytes, s)
      [] s.kind = "TcpNoAuth" /\ ph = 2 ->
            [result |-> Phase2Outcome(b, read_bytes), phase |-> ph, buf |-> << >>]
      [] s.kind = "TcpNoAuth" /\ ph = 3 ->
            [result |-> Phase3Outcome(b, read_bytes), phase |-> ph, buf |-> << >>]

\* the read completes with a reply: connect classifies it and either
\* returns or builds the next request and suspends at its write
read_ok ==
    /\ pc = "read"
    /\ \E r \in Replies(Len(buf)) :
        LET next == AfterRead(self, phase, ReadInto(buf, r), Len(r))
        IN  /\ rcvd' = Append(rcvd, [phase |-> phase, bytes |-> r])
            /\ \E left \in Leftovers(self, phase, r) : unread' = left
            /\ phase' = next.phase
            /\ IF next.result = "None"
               THEN /\ pc' = "write"
                    /\ buf' = next.buf
                    /\ UNCHANGED <<stream, result>>
               ELSE Finish(next.result)
    /\ UNCHANGED <<self, sent, io_err>>
    /\ UNCHANGED wvars
    /\ UNCHANGED avars
    /\ UNCHANGED xvars

-----------------------------------------------------------------------------
(* The wrapper returned by connect *)

\* Into<TcpStream> is implemented for S4GeneralStream and TcpNoAuthStream;
\* S4NoIdentStream has no such impl and its field is private.
HasInto(s) == s.kind \in {"Socks4General", "TcpNoAuth"}

\* Into::<TcpStream>::into: the wrapper is consumed and its wrapped_stream
\* is handed to the caller
into ==
    /\ pc = "done"
    /\ stream = "wrapper"
    /\ HasInto(self)
    /\ stream' = "caller"
    /\ UNCHANGED <<self, pc, phase, buf, sent, rcvd, result, io_err, unread>>
    /\ UNCHANGED wvars
    /\ UNCHANGED avars
    /\ UNCHANGED xvars

\* Bounds of the application traffic: the bytes the peer has sent that wait
\* to be read, and the bytes the transport accepts for writing.
MaxRx == 2
MaxTx == 2

AppBytes == {1, 2}
ReadCaps == {1, 2}
WriteBufs == {<<1>>, <<2, 1>>}

Ready(v) == [poll |-> "Ready", val |-> v]
Pending == [poll |-> "Pending", val |-> << >>]
Failed == [poll |-> "Err", val |-> << >>]

\* TcpStream::poll_read into a buffer of cap bytes
Tcp_poll_read(t, cap) ==
    IF t.rx = << >> THEN [t |-> t, res |-> Pending]
    ELSE LET n == Min(cap, Len(t.rx))
         IN  [t |-> [t EXCEPT !.rx = SubSeq(t.rx, n + 1, Len(t.rx))],
              res |-> Ready(SubSeq(t.rx, 1, n))]

\* TcpStream::poll_write of the bytes b
Tcp_poll_write(t, b) ==
    IF t.shut THEN [t |-> t, res |-> Failed]
    ELSE IF Len(t.tx) >= MaxTx THEN [t |-> t, res |-> Pending]
    ELSE LET n == Min(Len(b), MaxTx - Len(t.tx))
         IN  [t |-> [t EXCEPT !.tx = t.tx \o SubSeq(b, 1, n), !.flushed = FALSE],
              res |-> Ready(<<n>>)]

\* TcpStream::poll_flush
Tcp_poll_flush(t) == [t |-> [t EXCEPT !.flushed = TRUE], res |-> Ready(<< >>)]

\* TcpStream::poll_shutdown
Tcp_poll_shutdown(t) == [t |-> [t EXCEPT !.shut = TRUE], res |-> Ready(<< >>)]

\* AsyncRead::poll_read of the wrapper, on its wrapped_stream w
poll_read(w, cap) == Tcp_poll_read(w, cap)

\* AsyncWrite::poll_write of the wrapper, on its wrapped_stream w
poll_write(w, b) == Tcp_poll_write(w, b)

\* AsyncWrite::poll_flush of the wrapper, on its wrapped_stream w
poll_flush(w) == Tcp_poll_flush(w)

\* Mutant of poll_shutdown: the body of poll_flush, copied
poll_shutdown_CallsFlush(w) == Tcp_poll_flush(w)

\* AsyncWrite::poll_shutdown of the wrapper, on its wrapped_stream w
poll_shutdown(w) == Tcp_poll_shutdown(w)

\* the peer sends an application byte through the tunnel
peer_sends ==
    /\ pc = "done" /\ stream = "wrapper"
    /\ Len(tcp.rx) < MaxRx
    /\ \E b \in AppBytes :
        /\ tcp' = [tcp EXCEPT !.rx = Append(tcp.rx, b)]
        /\ twin' = [twin EXCEPT !.rx = Append(twin.rx, b)]
    /\ UNCHANGED polled
    /\ UNCHANGED hvars
    /\ UNCHANGED avars
    /\ UNCHANGED xvars

\* One operation on the wrapper; the same operation goes to the twin.
Both(w, r) ==
    /\ tcp' = w.t
    /\ twin' = r.t
    /\ polled' = [wrapper |-> w.res, raw |-> r.res]

wrapper_read ==
    /\ pc = "done" /\ stream = "wrapper"
    /\ \E cap \in ReadCaps : Both(poll_read(tcp, cap), Tcp_poll_read(twin, cap))
    /\ UNCHANGED hvars
    /\ UNCHANGED avars
    /\ UNCHANGED xvars

wrapper_write ==
    /\ pc = "done" /\ stream = "wrapper"
    /\ \E b \in WriteBufs : Both(poll_write(tcp, b), Tcp_poll_write(twin, b))
    /\ UNCHANGED hvars
    /\ UNCHANGED avars
    /\ UNCHANGED xvars

wrapper_flush ==
    /\ pc = "done" /\ stream = "wrapper"
    /\ Both(poll_flush(tcp), Tcp_poll_flush(twin))
    /\ UNCHANGED hvars
    /\ UNCHANGED avars
    /\ UNCHANGED xvars

wrapper_shutdown ==
    /\ pc = "done" /\ stream = "wrapper"
    /\ Both(poll_shutdown(tcp), Tcp_poll_shutdown(twin))
    /\ UNCHANGED hvars
    /\ UNCHANGED avars
    /\ UNCHANGED xvars

-----------------------------------------------------------------------------
(* ConnectionTimeouts *)

\* Timeouts in milliseconds
TimeoutMs == {0, 5, 30, 250, 1000}

Colon == 58
Plus == 43
Digit0 == 48

\* the decimal text of n, as bytes
RECURSIVE ToText(_)
ToText(n) == IF n < 10 THEN <<Digit0 + n>> ELSE Append(ToText(n \div 10), Digit0 + (n % 10))

\* the text "c:r:w" of three numbers
Joined(c, r, w) == ToText(c) \o <<Colon>> \o ToText(r) \o <<Colon>> \o ToText(w)

\* Texts given to from_str: "c:r:w" for all timeouts c, r, w, and texts
\* with a missing, empty, non-numeric, signed or fourth field
TimeoutArgs ==
    {[s |-> Joined(ms[1], ms[2], ms[3]), ms |-> ms] :
        ms \in TimeoutMs \X TimeoutMs \X TimeoutMs}
    \cup
    {[s |-> x, ms |-> << >>] :
        x \in {<< >>, <<53, 58, 51, 48>>, <<53, 58, 58, 51, 48>>, <<53, 58, 120, 58, 49>>,
               <<43, 53, 58, 49, 58, 50>>, <<49, 58, 50, 58, 51, 58, 52>>}}

\* str::split(":"): the fields of s between the colons
RECURSIVE split(_)
split(s) ==
    IF \A i \in 1..Len(s) : s[i] # Colon THEN <<s>>
    ELSE LET k == CHOOSE i \in 1..Len(s) :
                    s[i] = Colon /\ \A j \in 1..(i - 1) : s[j] # Colon
         IN  <<SubSeq(s, 1, k - 1)>> \o split(SubSeq(s, k + 1, Len(s)))

\* the value of a text of decimal digits
RECURSIVE DigitsValue(_)
DigitsValue(d) ==
    IF d = << >> THEN 0
    ELSE 10 * DigitsValue(SubSeq(d, 1, Len(d) - 1)) + (d[Len(d)] - Digit0)

\* str::parse::<u64>: an optional '+', then one or more decimal digits
parse_u64(f) ==
    LET d == IF f # << >> /\ f[1] = Plus THEN Tail(f) ELSE f
    IN  IF d = << >> \/ \E i \in 1..Len(d) : d[i] < Digit0 \/ d[i] > Digit0 + 9
        THEN [res |-> "Err", val |-> 0]
        ELSE [res |-> "Ok", val |-> DigitsValue(d)]

\* ConnectionTimeouts::new
ConnectionTimeouts_new(connecting_timeout, write_timeout, read_timeout) ==
    [res |-> "Ok",
     connecting_timeout |-> connecting_timeout,
     write_timeout |-> write_timeout,
     read_timeout |-> read_timeout]

\* impl FromStr for ConnectionTimeouts
ConnectionTimeouts_from_str(s) ==
    LET f == split(s)
    IN  IF Len(f) < 3 THEN [res |-> "Err"]
        ELSE LET ct == parse_u64(f[1])
                 rt == parse_u64(f[2])
                 wt == parse_u64(f[3])
             IN  IF ct.res = "Err" \/ rt.res = "Err" \/ wt.res = "Err"
                 THEN [res |-> "Err"]
                 ELSE ConnectionTimeouts_new(ct.val, rt.val, wt.val)

\* a caller parses the text arg.s
from_str ==
    /\ arg # NoArg
    /\ timeouts = NotParsed
    /\ timeouts' = ConnectionTimeouts_from_str(arg.s)
    /\ UNCHANGED <<parked, arg>>
    /\ UNCHANGED hvars
    /\ UNCHANGED wvars
    /\ UNCHANGED avars

-----------------------------------------------------------------------------
(* A second attempt of the caller *)

\* The replies of a first attempt after which a second attempt is followed
FirstAttemptReplies ==
    {<< >>, <<5, 2>>, <<0, 0>>, <<0, 2>>, Reply(8, 0, 90, 0), Reply(8, 0, 91, 0)}

\* The caller starts over with a transport on which nothing has moved
NewAttempt(how) ==
    /\ pc = "done"
    /\ prev.how = "none"
    /\ \A i \in 1..Len(rcvd) : rcvd[i].bytes \in FirstAttemptReplies
    /\ prev' = [how |-> how, built |-> built, sent |-> sent, rcvd |-> rcvd,
                result |-> result, io_err |-> io_err]
    /\ pc' = "idle"
    /\ phase' = 0
    /\ buf' = << >>
    /\ stream' = "caller"
    /\ sent' = << >>
    /\ rcvd' = << >>
    /\ result' = "None"
    /\ io_err' = NoIoError
    /\ unread' = 0
    /\ tcp' = Connected
    /\ twin' = Connected
    /\ polled' = [wrapper |-> NotPolled, raw |-> NotPolled]

\* after a failed attempt the caller keeps the constructor, to call connect
\* on it again with a fresh transport
reuse ==
    /\ result \notin {"Ok", "Panic"}
    /\ NewAttempt("reuse")
    /\ UNCHANGED <<self, built>>
    /\ UNCHANGED xvars

\* the caller builds a second constructor from the parameters of the first
rebuild ==
    /\ NewAttempt("rebuild")
    /\ self' = built
    /\ UNCHANGED built
    /\ UNCHANGED xvars

-----------------------------------------------------------------------------
(* Two attempts on two transports *)

\* The replies of an attempt that the other attempt is interleaved with
InterleavedReplies == {<<5, 2>>, <<0, 0>>, Reply(8, 0, 90, 0)}

\* An attempt not yet started: a constructor and a transport of its own
Attempt(c) ==
    [self |-> c, pc |-> "idle", phase |-> 0, buf |-> << >>, stream |-> "caller",
     sent |-> << >>, rcvd |-> << >>, result |-> "None", io_err |-> NoIoError,
     unread |-> 0, built |-> c]

\* The attempt that is running: the constructor, the locals of its connect
\* and its transport
Running ==
    [self |-> self, pc |-> pc, phase |-> phase, buf |-> buf, stream |-> stream,
     sent |-> sent, rcvd |-> rcvd, result |-> result, io_err |-> io_err,
     unread |-> unread, built |-> built]

\* Mutant of yield: the payload buffer is one buffer, shared by the attempts
yield_SharedBuf ==
    /\ parked # NoAttempt
    /\ \A i \in 1..Len(rcvd) : rcvd[i].bytes \in InterleavedReplies
    /\ parked' = Running
    /\ self' = parked.self
    /\ pc' = parked.pc
    /\ phase' = parked.phase
    /\ buf' = buf
    /\ stream' = parked.stream
    /\ sent' = parked.sent
    /\ rcvd' = parked.rcvd
    /\ result' = parked.result
    /\ io_err' = parked.io_err
    /\ unread' = parked.unread
    /\ built' = parked.built
    /\ UNCHANGED <<prev, arg, timeouts>>
    /\ UNCHANGED wvars

\* The executor suspends the running attempt, at an await or before or
\* after connect, and resumes the other: each future keeps its own
\* constructor, locals and transport.
yield ==
    /\ parked # NoAttempt
    /\ \A i \in 1..Len(rcvd) : rcvd[i].bytes \in InterleavedReplies
    /\ parked' = Running
    /\ self' = parked.self
    /\ pc' = parked.pc
    /\ phase' = parked.phase
    /\ buf' = parked.buf
    /\ stream' = parked.stream
    /\ sent' = parked.sent
    /\ rcvd' = parked.rcvd
    /\ result' = parked.result
    /\ io_err' = parked.io_err
    /\ unread' = parked.unread
    /\ built' = parked.built
    /\ UNCHANGED <<prev, arg, timeouts>>
    /\ UNCHANGED wvars

-----------------------------------------------------------------------------
(* Specifications *)

Next ==
    \/ with_authentication
    \/ connect
    \/ write_ok
    \/ write_fail
    \/ read_ok
    \/ read_fail
    \/ into

Spec == Init /\ [][Next]_vars

\* One constructor of each kind, for the traffic through the wrapper
WrapConstructors ==
    {Socks4General_new([ip |-> <<127, 0, 0, 1>>, port |-> 80], <<117>>),
     Socks4NoIdent_new([ip |-> <<127, 0, 0, 1>>, port |-> 80]),
     TcpNoAuth_new(Ipv4Addr(<<127, 0, 0, 1>>), 80)}

InitWrap == Init /\ self \in WrapConstructors

NextWrap ==
    \/ with_authentication
    \/ connect
    \/ write_ok
    \/ write_fail
    \/ read_ok
    \/ read_fail
    \/ into
    \/ peer_sends
    \/ wrapper_read
    \/ wrapper_write
    \/ wrapper_flush
    \/ wrapper_shutdown

SpecWrap == InitWrap /\ [][NextWrap]_vars

\* One constructor of each kind and authentication selection, configured
\* before the first attempt, for the second attempt
ReuseConstructors ==
    {Socks4General_new([ip |-> <<127, 0, 0, 1>>, port |-> 80], <<117>>),
     Socks4NoIdent_new([ip |-> <<127, 0, 0, 1>>, port |-> 80]),
     TcpNoAuth_new(Ipv4Addr(<<127, 0, 0, 1>>), 80),
     [TcpNoAuth_new(Ipv4Addr(<<127, 0, 0, 1>>), 80)
        EXCEPT !.auth = UsernamePassword(<<117>>, <<112, 119>>)]}

InitReuse ==
    /\ self \in ReuseConstructors
    /\ pc = "idle"
    /\ phase = 0
    /\ buf = << >>
    /\ stream = "caller"
    /\ sent = << >>
    /\ rcvd = << >>
    /\ result = "None"
    /\ io_err = NoIoError
    /\ unread = 0
    /\ tcp = Connected
    /\ twin = Connected
    /\ polled = [wrapper |-> NotPolled, raw |-> NotPolled]
    /\ built = self
    /\ prev = [how |-> "none", built |-> self, sent |-> << >>, rcvd |-> << >>,
               result |-> "None", io_err |-> NoIoError]
    /\ parked = NoAttempt
    /\ arg = NoArg
    /\ timeouts = NotParsed

NextReuse ==
    \/ connect
    \/ write_ok
    \/ write_fail
    \/ read_ok
    \/ read_fail
    \/ reuse
    \/ rebuild

SpecReuse == InitReuse /\ [][NextReuse]_vars

\* Two attempts: one of Socks4NoIdent, and a second of either protocol
\* version
TwoConstructors ==
    {Socks4NoIdent_new([ip |-> <<127, 0, 0, 1>>, port |-> 80]),
     TcpNoAuth_new(Ipv4Addr(<<127, 0, 0, 1>>), 80)}

InitTwo ==
    /\ self = Socks4NoIdent_new([ip |-> <<192, 168, 1, 200>>, port |-> 8080])
    /\ pc = "idle"
    /\ phase = 0
    /\ buf = << >>
    /\ stream = "caller"
    /\ sent = << >>
    /\ rcvd = << >>
    /\ result = "None"
    /\ io_err = NoIoError
    /\ unread = 0
    /\ tcp = Connected
    /\ twin = Connected
    /\ polled = [wrapper |-> NotPolled, raw |-> NotPolled]
    /\ built = self
    /\ prev = [how |-> "none", built |-> self, sent |-> << >>, rcvd |-> << >>,
               result |-> "None", io_err |-> NoIoError]
    /\ \E c \in TwoConstructors : parked = Attempt(c)
    /\ arg = NoArg
    /\ timeouts = NotParsed

NextTwo ==
    \/ connect
    \/ write_ok
    \/ write_fail
    \/ read_ok
    \/ read_fail
    \/ yield

SpecTwo == InitTwo /\ [][NextTwo]_vars

\* The parsing of timeouts texts, before any constructor is used
InitTimeouts ==
    /\ self = Socks4NoIdent_new([ip |-> <<127, 0, 0, 1>>, port |-> 80])
    /\ pc = "idle"
    /\ phase = 0
    /\ buf = << >>
    /\ stream = "caller"
    /\ sent = << >>
    /\ rcvd = << >>
    /\ result = "None"
    /\ io_err = NoIoError
    /\ unread = 0
    /\ tcp = Connected
    /\ twin = Connected
    /\ polled = [wrapper |-> NotPolled, raw |-> NotPolled]
    /\ built = self
    /\ prev = [how |-> "none", built |-> self, sent |-> << >>, rcvd |-> << >>,
               result |-> "None", io_err |-> NoIoError]
    /\ parked = NoAttempt
    /\ arg \in TimeoutArgs
    /\ timeouts = NotParsed

NextTimeouts == from_str

SpecTimeouts == InitTimeouts /\ [][NextTimeouts]_vars

-----------------------------------------------------------------------------
(* Properties *)

IsV4 == self.kind \in {"Socks4General", "Socks4NoIdent"}

IsV5 == self.kind = "TcpNoAuth"

\* the bytes of the last reply read (when one was read)
LastReply == rcvd[Len(rcvd)].bytes

\* the phases of the requests written, in order
SentPhases == [i \in 1..Len(sent) |-> sent[i].phase]

\* C1: every TcpNoAuth::connect that returns a wrapped stream wrote a method
\* request, then (only with username/password) a sub-negotiation request,
\* then a connect request, and read a connect reply with status 0x00: two
\* round trips with no-auth, three with username/password.
C1_PhaseOrder ==
    (IsV5 /\ result = "Ok") =>
        /\ SentPhases = IF self.auth.kind = "UsernamePassword"
                        THEN <<1, 2, 3>> ELSE <<1, 3>>
        /\ Len(rcvd) = Len(sent)
        /\ rcvd[Len(rcvd)].phase = 3
        /\ LastReply[2] = 0

\* C2: with no-authentication configured, a method reply [5, 0x00] does not
\* end the attempt: connect goes on to Phase 3.
C2_NoAuthProceeds ==
    (IsV5 /\ self.auth.kind = "NoAuthentication"
        /\ Len(rcvd) >= 1 /\ rcvd[1].bytes = <<5, 0>>) =>
        /\ phase = 3
        /\ result # "Method_NoAuthRequired"

\* C3: a version-4 handshake that read exactly 8 bytes ends as reply byte 1
\* says: 0x5A wrapped stream, 0x5B RequestDenied, 0x5C IdentIsUnavailable,
\* 0x5D BadIdent, any other value BadBuffer.
C3_V4StatusTable ==
    (IsV4 /\ pc = "done" /\ Len(rcvd) = 1 /\ Len(LastReply) = 8) =>
        /\ LastReply[2] = 90 => result = "Ok"
        /\ LastReply[2] = 91 => result = "RequestDenied"
        /\ LastReply[2] = 92 => result = "IdentIsUnavailable"
        /\ LastReply[2] = 93 => result = "BadIdent"
        /\ LastReply[2] \notin 90..93 => result = "BadBuffer"

C3_Witness ==
    /\ self.kind = "Socks4General" /\ pc = "done" /\ Len(rcvd) = 1
    /\ Len(LastReply) = 8 /\ LastReply[2] = 92 /\ result = "IdentIsUnavailable"

\* C4: a version-4 handshake whose read returned a count other than 8 ends
\* with BadBuffer, whatever the bytes read are.
C4_V4WrongCount ==
    (IsV4 /\ pc = "done" /\ Len(rcvd) = 1 /\ Len(LastReply) # 8) =>
        result = "BadBuffer"

C4_Witness ==
    /\ self.kind = "Socks4NoIdent" /\ pc = "done" /\ Len(rcvd) = 1
    /\ Len(LastReply) = 9 /\ LastReply[2] = 90 /\ result = "BadBuffer"

\* the version-5 reply table of the spec
V5Table(b) ==
    CASE b = 0 -> "Ok"
      [] b = 1 -> "SocksServerFailure"
      [] b = 2 -> "RequestDenied"
      [] b = 3 -> "NetworkUnreachable"
      [] b = 4 -> "HostUnreachable"
      [] b = 5 -> "ConnectionRefused"
      [] b = 6 -> "TTLExpired"
      [] b = 7 -> "NotSupported"
      [] b = 8 -> "DestinationNotSupported"
      [] OTHER -> "BadBuffer"

\* a Phase-3 reply was read and connect has returned
Phase3Ended == IsV5 /\ pc = "done" /\ Len(rcvd) >= 1 /\ rcvd[Len(rcvd)].phase = 3

C6_FullReplyAccepted ==
    (Phase3Ended /\ Len(LastReply) = 10) =>
        /\ LastReply = <<5, 0, 0, 1, 0, 0, 0, 0, 0, 0>> => result = "Ok"
        /\ (LastReply[1] = 5 /\ LastReply[2] = 3) => result = "NetworkUnreachable"

V4Errors ==
    {"IOError", "BadBuffer", "RequestDenied", "IdentIsUnavailable", "BadIdent",
     "OperationTimeoutReached"}

V5Errors ==
    {"OperationTimeoutReached", "IOError", "BadBuffer", "DomainNameTooLong",
     "SocksServerFailure", "RequestDenied", "NetworkUnreachable", "HostUnreachable",
     "ConnectionRefused", "TTLExpired", "NotSupported", "DestinationNotSupported",
     "Method_NoAuthRequired", "Method_GssAPI", "Method_IANA", "Method_PrivateMethods"}

\* the single success code of the protocol
SuccessCode == IF IsV4 THEN 90 ELSE 0

\* C7: connect returns a wrapped stream only when the status byte of the
\* reply that ends the handshake is the success code of the protocol (0x5A
\* for v4, 0x00 for v5); a reply on which connect ends (the reply of the
\* phase it ended in) with any other status byte gives one error value of
\* the protocol's taxonomy.
C7_SuccessOnlyOnSuccessCode ==
    /\ result = "Ok" =>
        /\ pc = "done" /\ Len(rcvd) >= 1
        /\ Len(LastReply) >= 2 /\ LastReply[2] = SuccessCode
    /\ (pc = "done" /\ Len(rcvd) >= 1 /\ rcvd[Len(rcvd)].phase = phase
            /\ Len(LastReply) >= 2 /\ LastReply[2] # SuccessCode) =>
        result \in (IF IsV4 THEN V4Errors ELSE V5Errors)

C7_Witness ==
    /\ IsV5 /\ pc = "done" /\ Len(rcvd) = 2 /\ Len(LastReply) = 2
    /\ LastReply = <<0, 0>> /\ result = "Ok"

\* the version-4 request written to the transport (when one was written)
V4Request == sent[1].bytes

C9_IdentCarried ==
    (self.kind = "Socks4General" /\ Len(sent) >= 1) =>
        /\ Len(V4Request) = 8 + Len(self.ident) + 1
        /\ SubSeq(V4Request, 9, 8 + Len(self.ident)) = self.ident
        /\ V4Request[Len(V4Request)] = 0

\* the serialized form of a destination: type tag, then the address
Serialized(d) ==
    CASE d.tag = "Ipv4Addr" -> <<1>> \o d.addr
      [] d.tag = "DomainName" -> <<3, Len(d.addr)>> \o d.addr
      [] d.tag = "Ipv6Addr" -> <<4>> \o d.addr

\* C10: every Phase-3 request written has length 3 + len_as_buffer() + 2 and
\* is byte 5, byte 1, a reserved byte 0, the serialized destination and the
\* port big-endian in the last two bytes.
C10_Phase3RequestLayout ==
    \A i \in 1..Len(sent) :
        sent[i].phase = 3 =>
            LET r == sent[i].bytes
                n == len_as_buffer(self.destination)
            IN  /\ Len(r) = 3 + n + 2
                /\ r[1] = 5 /\ r[2] = 1 /\ r[3] = 0
                /\ SubSeq(r, 4, 3 + n) = Serialized(self.destination)
                /\ r[Len(r) - 1] * 256 + r[Len(r)] = self.port

C10_Witness ==
    /\ Len(sent) = 2 /\ sent[2].phase = 3 /\ self.destination.tag = "Ipv6Addr"
    /\ self.port = 8080
    /\ sent[2].bytes =
          <<5, 1, 0, 4, 32, 1, 13, 184, 0, 0, 0, 0, 0, 0, 0, 0, 0, 0, 0, 1, 31, 144>>

\* the destination is a domain name longer than 255 bytes
LongName ==
    IsV5 /\ self.destination.tag = "DomainName" /\ Len(self.destination.addr) > 255

\* the error values of the constructor's protocol
Errors == IF IsV4 THEN V4Errors ELSE V5Errors

\* C11: with a domain name longer than 255 bytes, the attempt that comes to
\* encode the destination ends by returning DomainNameTooLong, and no
\* Phase-3 request is written.
C11_DomainNameTooLong ==
    (LongName /\ pc = "done" /\ phase = 3) =>
        /\ result = "DomainNameTooLong"
        /\ \A i \in 1..Len(sent) : sent[i].phase # 3

\* C12: with a domain name of 256 or more bytes, the attempt writes nothing
\* to the transport: the length is checked before the method request is sent.
C12_NothingWritten == LongName => sent = << >>

\* C13: when a write step or a read step exceeds its timeout, connect
\* returns OperationTimeoutReached, and no reply of that phase is examined.
C13_TimeoutReturned ==
    (pc = "done" /\ io_err.err = "OperationTimeoutReached") =>
        /\ result = "OperationTimeoutReached"
        /\ \A i \in 1..Len(rcvd) : rcvd[i].phase < phase

\* C14: when the transport fails a write or a read, connect returns IOError
\* to its caller and ends in no other way.
C14_IoErrorReturned ==
    (pc = "done" /\ io_err.err = "IOError") => result = "IOError"

\* C15: an attempt that has ended is Connected or Failed after at most three
\* round trips, and when a request was written and the read timed out it is
\* Failed with OperationTimeoutReached.
C15_TerminalStates ==
    pc = "done" =>
        /\ result \in {"Ok"} \cup Errors
        /\ Len(sent) <= 3 /\ Len(rcvd) <= Len(sent)
        /\ (io_err.step = "read" /\ io_err.err = "OperationTimeoutReached") =>
                result = "OperationTimeoutReached"

\* C16: when connect has ended, either it returned a wrapper, which owns the
\* transport, or it returned an error and the transport is dropped; and once
\* connect is called the caller does not hold the transport unless it has
\* unwrapped a wrapper.
C16_BinaryOutcome ==
    /\ pc = "done" =>
        \/ result = "Ok" /\ stream \in {"wrapper", "caller"}
        \/ result \in Errors /\ stream = "dropped"
    /\ (pc # "idle" /\ stream = "caller") => (result = "Ok" /\ HasInto(self))

\* C17: when connect returns a wrapped stream, no byte of the server's
\* handshake replies is left in the transport.
C17_RepliesConsumed == result = "Ok" => unread = 0

\* C18: every read, write, flush and shutdown on a wrapper gives the result
\* the same operation gives on the raw transport and leaves the transport
\* in the same state: after any sequence of operations the wrapped
\* transport equals the twin and the last results agree.
C18_WrapperTransparent ==
    /\ tcp = twin
    /\ polled.wrapper = polled.raw

C18_Witness ==
    /\ self.kind = "Socks4NoIdent" /\ stream = "wrapper"
    /\ tcp.tx = <<2, 1>> /\ tcp.flushed /\ tcp.shut /\ tcp.rx = <<2>>
    /\ polled.wrapper = Ready(<<1>>)

\* C19: every wrapper a successful handshake returns can be unwrapped, and
\* the caller then holds the transport it gave to connect.
C19_Unwrap ==
    /\ (pc = "done" /\ stream = "wrapper") => ENABLED into
    /\ (pc = "done" /\ stream = "caller") => result = "Ok"

\* The method reply, when one has been read
MethodReply == rcvd[1].bytes

\* C21: when the method reply selects 0x02 and the constructor has no
\* username/password, connect fails there: the method request is the only
\* request written.
C21_MethodMismatchFails ==
    (IsV5 /\ self.auth.kind # "UsernamePassword"
        /\ Len(rcvd) >= 1 /\ MethodReply = <<5, 2>>) =>
        /\ pc = "done"
        /\ result \in V5Errors
        /\ Len(sent) = 1

\* The result the claim gives for the 2-byte method reply <<b0, b1>>, for
\* the values of b1 it covers
MethodTable(b0, b1) ==
    IF b0 # 5 \/ b1 = 255 THEN "BadBuffer"
    ELSE IF b1 = 1 THEN "Method_GssAPI"
    ELSE IF b1 \in 3..127 THEN "Method_IANA"
    ELSE "Method_PrivateMethods"

\* C22: a 2-byte method reply with byte 0 other than 5 or byte 1 = 0xFF
\* gives BadBuffer; otherwise byte 1 = 0x01 gives the GSSAPI error, 0x03..0x7F
\* the IANA error and 0x80..0xFE the private-methods error; the attempt ends
\* there, with the method request the only one written.
C22_MethodReplyTable ==
    (IsV5 /\ Len(rcvd) >= 1 /\ Len(MethodReply) = 2
        /\ (MethodReply[1] # 5 \/ MethodReply[2] \notin {0, 2})) =>
        /\ pc = "done"
        /\ result = MethodTable(MethodReply[1], MethodReply[2])
        /\ Len(sent) = 1
        /\ Len(rcvd) = 1

C22_Witness ==
    /\ IsV5 /\ pc = "done" /\ Len(rcvd) = 1
    /\ MethodReply = <<5, 128>>
    /\ result = "Method_PrivateMethods"

\* C23: the first request of a version-5 attempt is <<5, 1, m>> with m = 0
\* for no-authentication and m = 2 for username/password, and a method read
\* of a count other than 2 ends the attempt with BadBuffer.
C23_Phase1 ==
    IsV5 =>
        /\ Len(sent) >= 1 =>
            /\ sent[1].phase = 1
            /\ sent[1].bytes =
                <<5, 1, IF self.auth.kind = "UsernamePassword" THEN 2 ELSE 0>>
        /\ (Len(rcvd) >= 1 /\ Len(MethodReply) # 2) =>
            /\ pc = "done"
            /\ result = "BadBuffer"
            /\ Len(rcvd) = 1 /\ Len(sent) = 1

C23_Witness ==
    /\ IsV5 /\ self.auth.kind = "UsernamePassword"
    /\ pc = "done" /\ result = "BadBuffer"
    /\ Len(sent) = 1 /\ sent[1].bytes = <<5, 1, 2>>
    /\ Len(rcvd) = 1 /\ MethodReply = <<5, 2, 0>>

\* The sub-negotiation request of RFC 1929 for username u and password p
UserPassRequest(u, p) == <<1, Len(u)>> \o u \o <<Len(p)>> \o p

\* C24: with a username and a password of at most 255 bytes each, the
\* Phase-2 request is <<1, len(username)>>, the username, <<len(password)>>,
\* the password, and nothing else: 3 + len(username) + len(password) bytes.
C24_Phase2RequestLayout ==
    \A i \in 1..Len(sent) :
        (sent[i].phase = 2
            /\ Len(self.auth.username) <= 255 /\ Len(self.auth.password) <= 255) =>
            /\ sent[i].bytes = UserPassRequest(self.auth.username, self.auth.password)
            /\ Len(sent[i].bytes) = 3 + Len(self.auth.username) + Len(self.auth.password)

C24_Witness ==
    /\ Len(sent) = 2 /\ sent[2].phase = 2
    /\ Len(self.auth.username) = 255
    /\ sent[2].bytes[2] = 255 /\ sent[2].bytes[258] = 1 /\ sent[2].bytes[259] = 112

\* C25: the two length bytes of every Phase-2 request written are the
\* lengths of the username and the password that follow them.
C25_NoTruncation ==
    \A i \in 1..Len(sent) :
        sent[i].phase = 2 =>
            /\ sent[i].bytes[2] = Len(self.auth.username)
            /\ sent[i].bytes[3 + Len(self.auth.username)] = Len(self.auth.password)

\* C26: a Phase-2 reply of a count other than 2, or with byte 1 other than
\* 0x00, ends the attempt in failure: the transport is dropped and no
\* Phase-3 request is written.
C26_Phase2Failure ==
    \A i \in 1..Len(rcvd) :
        (IsV5 /\ rcvd[i].phase = 2
            /\ (Len(rcvd[i].bytes) # 2 \/ rcvd[i].bytes[2] # 0)) =>
            /\ pc = "done"
            /\ result \in V5Errors
            /\ stream = "dropped"
            /\ i = Len(rcvd)
            /\ \A j \in 1..Len(sent) : sent[j].phase # 3

C26_Witness ==
    /\ IsV5 /\ self.auth.username = << >>
    /\ pc = "done" /\ result = "BadBuffer" /\ stream = "dropped"
    /\ Len(rcvd) = 2 /\ rcvd[2].phase = 2 /\ rcvd[2].bytes = << >>

\* C27: the I/O steps of an attempt alternate, write then read, phase after
\* phase: while a read is awaited the whole request of its phase has been
\* written and every earlier reply read; while a write is awaited every
\* request written has had its reply read; replies pair with requests, and
\* the phases of the requests increase.
C27_Sequential ==
    /\ Len(rcvd) <= Len(sent) /\ Len(sent) <= Len(rcvd) + 1
    /\ pc = "idle" => (sent = << >> /\ rcvd = << >>)
    /\ pc = "write" => Len(sent) = Len(rcvd)
    /\ pc = "read" =>
        /\ Len(sent) = Len(rcvd) + 1
        /\ sent[Len(sent)] = [phase |-> phase, bytes |-> buf]
    /\ \A i \in 1..Len(rcvd) : rcvd[i].phase = sent[i].phase
    /\ \A i \in 1..Len(sent) : \A j \in 1..Len(sent) :
        i < j => sent[i].phase < sent[j].phase

C27_Witness ==
    /\ pc = "read" /\ phase = 3
    /\ Len(sent) = 2 /\ Len(rcvd) = 1
    /\ Len(sent[2].bytes) = 10

\* A reply after which the handshake can go on or has succeeded: the right
\* byte count and the success code of its phase
GoodReply(r) ==
    IF IsV4 THEN Len(r.bytes) = 8 /\ r.bytes[2] = 90
    ELSE IF r.phase = 1 THEN r.bytes = <<5, 2>>
    ELSE Len(r.bytes) = 2 /\ r.bytes[2] = 0

\* The attempt has failed: a write or a read failed or timed out, or the
\* last reply has a wrong byte count or a non-success code
Failed_Attempt ==
    \/ io_err.step # "none"
    \/ Len(rcvd) >= 1 /\ ~GoodReply(rcvd[Len(rcvd)])

\* C28: a failed attempt has ended without success, with nothing written
\* after the failing step and no reply before the last one a failing one;
\* one method request, offering one method, is written per attempt; and
\* once an attempt has ended in failure nothing more is written or read.
C28_FailureTerminal ==
    /\ [](Failed_Attempt =>
            /\ pc = "done" /\ result # "Ok"
            /\ Len(sent) <= Len(rcvd) + 1
            /\ io_err.step # "write" => Len(sent) = Len(rcvd) + (IF io_err.step = "read" THEN 1 ELSE 0))
    /\ [](\A i \in 1..Len(rcvd) : i < Len(rcvd) => GoodReply(rcvd[i]))
    /\ [](\A i \in 1..Len(sent) : sent[i].phase = 1 => i = 1)
    /\ []((IsV5 /\ Len(sent) >= 1) =>
            (Len(sent[1].bytes) = 3 /\ sent[1].bytes[2] = 1))
    /\ [][(pc = "done" /\ result # "Ok") =>
            (pc' = pc /\ result' = result /\ sent' = sent /\ rcvd' = rcvd
                /\ stream' = stream)]_vars

C28_Witness ==
    /\ IsV5 /\ pc = "done" /\ result = "RequestDenied"
    /\ Len(sent) = 2 /\ Len(rcvd) = 2
    /\ rcvd[2] = [phase |-> 2, bytes |-> <<0, 2>>]

\* The requests of this attempt are those of the previous attempt, as far
\* as the replies of the two attempts are the same
SameRequests ==
    \A i \in 1..Len(sent) :
        (i <= Len(prev.sent)
            /\ \A j \in 1..(i - 1) : j <= Len(rcvd) /\ rcvd[j] = prev.rcvd[j]) =>
            sent[i] = prev.sent[i]

C36_TimeoutsParsed ==
    (arg.ms # << >> /\ timeouts # NotParsed) =>
        /\ timeouts.res = "Ok"
        /\ timeouts.connecting_timeout = arg.ms[1]
        /\ timeouts.read_timeout = arg.ms[2]
        /\ timeouts.write_timeout = arg.ms[3]

\* An attempt that has come to encode the destination, a domain name of at
\* most 255 bytes or an address, with no I/O step failed
EncodesDestination ==
    IsV5 /\ ~LongName /\ phase = 3 /\ io_err.step = "none"

\* C32: for every destination, len_as_buffer() is the number of bytes
\* extend_buffer writes when connect calls it, on a slice with room for the
\* destination and the 2 port bytes: 5, len(name) + 2 or 17; extend_buffer
\* completes, and the 2 bytes after the destination are as they were.
C32_LenAsBuffer ==
    EncodesDestination =>
        LET d == self.destination
            n == len_as_buffer(d)
            ext == extend_buffer(d, Rep(n + 2, 170))
        IN  /\ n = CASE d.tag = "Ipv4Addr" -> 5
                     [] d.tag = "DomainName" -> Len(d.addr) + 2
                     [] d.tag = "Ipv6Addr" -> 17
            /\ ext.res = "Ok"
            /\ Len(ext.out) = n + 2
            /\ SubSeq(ext.out, n + 1, n + 2) = <<170, 170>>
            /\ result # "Panic"

\* C33: the attempt that encodes the destination builds a Phase-3 request
\* that carries, after its first 3 bytes, the type tag and the address: 1 and
\* the 4 octets, 3 and the length and the name, or 4 and the 16 octets.
C33_SerializedDestination ==
    EncodesDestination =>
        LET d == self.destination
            r == IF pc = "write" THEN buf ELSE sent[Len(sent)].bytes
        IN  /\ pc = "write" \/ sent[Len(sent)].phase = 3
            /\ SubSeq(r, 4, 3 + Len(Serialized(d))) = Serialized(d)

\* C34: send_payload makes one write of the whole buffer, then one read into
\* it: a phase has at most one request and one reply, a reply is no longer
\* than the buffer it was read into, and when the write fails or times out
\* send_payload returns that error with no read made for the phase.
C34_SendPayload ==
    /\ \A i \in 1..Len(sent) : \A j \in 1..Len(sent) :
        sent[i].phase = sent[j].phase => i = j
    /\ \A i \in 1..Len(rcvd) : \A j \in 1..Len(rcvd) :
        rcvd[i].phase = rcvd[j].phase => i = j
    /\ \A i \in 1..Len(rcvd) : Len(rcvd[i].bytes) <= Len(sent[i].bytes)
    /\ io_err.step = "write" =>
        /\ io_err.err \in {"OperationTimeoutReached", "IOError"}
        /\ pc = "done"
        /\ Len(rcvd) = Len(sent)
        /\ \A i \in 1..Len(rcvd) : rcvd[i].phase < phase
    /\ io_err.step = "read" =>
        /\ io_err.err \in {"OperationTimeoutReached", "IOError"}
        /\ pc = "done"
        /\ Len(sent) = Len(rcvd) + 1
        /\ sent[Len(sent)].phase = phase

C34_Witness ==
    /\ self.kind = "TcpNoAuth" /\ pc = "done"
    /\ io_err = [step |-> "write", err |-> "OperationTimeoutReached"]
    /\ phase = 3 /\ Len(sent) = 1 /\ Len(rcvd) = 1

\* C35: the selection in force is the one most recently made: a constructor
\* on which with_authentication was not called offers method 0, one on which
\* it was called offers method 2 and, in Phase 2, sends the username and the
\* password of the last call; and no step of an attempt changes the selection.
C35_OneSelection ==
    /\ [](IsV5 =>
            /\ self.auth = built.auth
            /\ Len(sent) >= 1 =>
                sent[1].bytes[3] = (IF built.auth.kind = "UsernamePassword" THEN 2 ELSE 0)
            /\ \A i \in 1..Len(sent) :
                sent[i].phase = 2 =>
                    LET u == built.auth.username
                        p == built.auth.password
                        r == sent[i].bytes
                    IN  /\ built.auth.kind = "UsernamePassword"
                        /\ rcvd[1].bytes = <<5, 2>>
                        /\ SubSeq(r, 3, 2 + Len(u)) = u
                        /\ SubSeq(r, 4 + Len(u), Len(r)) = p)
    /\ [][pc # "idle" => (self' = self /\ built' = built)]_vars

C35_Witness ==
    /\ IsV5 /\ built.auth = UsernamePassword(<<117>>, <<112, 119>>)
    /\ Len(sent) = 2 /\ sent[2] = [phase |-> 2, bytes |-> <<1, 1, 117, 2, 112, 119>>]

\* C37: a read that returns fewer bytes than the reply of the protocol has
\* (8 in version 4, 2 in version 5) ends the attempt with BadBuffer: it is
\* the last read, and the only one of its phase.
C37_SingleRead ==
    \A i \in 1..Len(rcvd) :
        Len(rcvd[i].bytes) < (IF IsV4 THEN 8 ELSE 2) =>
            /\ i = Len(rcvd)
            /\ pc = "done"
            /\ result = "BadBuffer"
            /\ Len(sent) = i
            /\ \A j \in 1..Len(rcvd) : rcvd[j].phase = rcvd[i].phase => j = i

C37_Witness ==
    /\ self.kind = "Socks4General" /\ pc = "done" /\ result = "BadBuffer"
    /\ Len(rcvd) = 1 /\ rcvd[1].bytes = <<0, 90, 0, 0>>
    /\ unread = 4

\* C38: Socks4General with an empty ident writes the request Socks4NoIdent
\* writes for the same destination, and for every reply read returns what
\* Socks4NoIdent returns for it.
C38_EmptyIdentEquivalent ==
    (self.kind = "Socks4General" /\ self.ident = << >>) =>
        LET n == Socks4NoIdent_new(self.dest_addr)
        IN  /\ Len(sent) >= 1 => sent[1].bytes = S4NoIdentRequest(n)
            /\ (pc = "done" /\ io_err.step = "none") =>
                result = S4NoIdentOutcome(ReadInto(S4NoIdentRequest(n), rcvd[1].bytes),
                                          Len(rcvd[1].bytes))

C38_Witness ==
    /\ self.kind = "Socks4General" /\ self.ident = << >>
    /\ pc = "done" /\ io_err.step = "none"
    /\ rcvd[1].bytes = Reply(8, 0, 93, 255)
    /\ result = "BadIdent"

\* C39: Socks4NoIdent::connect ends by returning the wrapper or one
\* ErrorKind, never by a panic, and while it waits for a write or a read the
\* timeout of that step can end it.
C39_NoIdentReturns ==
    self.kind = "Socks4NoIdent" =>
        /\ pc = "done" =>
            \/ result = "Ok" /\ stream \in {"wrapper", "caller"}
            \/ result \in V4Errors /\ stream = "dropped"
        /\ pc = "write" => ENABLED write_fail
        /\ pc = "read" => ENABLED read_fail
        /\ io_err.step # "none" => (pc = "done" /\ result = io_err.err)

C39_Witness ==
    /\ self.kind = "Socks4NoIdent" /\ pc = "done"
    /\ io_err = [step |-> "read", err |-> "IOError"]
    /\ result = "IOError"

SoloFirst(a) ==
    AfterRead(a.self, 1, ReadInto(FirstRequest(a.self), a.rcvd[1].bytes),
              Len(a.rcvd[1].bytes))

\* The outcome of the attempt a, run alone, from its constructor, the
\* replies of its transport and the I/O step that failed on it
SoloResult(a) ==
    IF a.io_err.step # "none" THEN IoFailure(a.self, a.io_err.err)
    ELSE LET first == SoloFirst(a)
         IN  IF Len(a.rcvd) = 1 THEN first.result
             ELSE AfterRead(a.self, first.phase,
                            ReadInto(first.buf, a.rcvd[2].bytes),
                            Len(a.rcvd[2].bytes)).result

\* The attempt a has written and returned what it writes and returns alone
AsIfAlone(a) ==
    /\ Len(a.sent) <= 2
    /\ Len(a.sent) >= 1 => a.sent[1] = [phase |-> 1, bytes |-> FirstRequest(a.self)]
    /\ Len(a.sent) = 2 =>
        LET first == SoloFirst(a)
        IN  /\ first.result = "None"
            /\ a.sent[2] = [phase |-> first.phase, bytes |-> first.buf]
    /\ a.pc = "done" => a.result = SoloResult(a)
    /\ a.pc # "done" => a.result = "None"

=============================================================================
